---- MODULE Spec2Model ----
(***************************************************************************)
(* geemap/colormaps.py: the ramp sampler get_palette, the enumerator       *)
(* list_colormaps, the module-load build of __palette_dict and the frozen  *)
(* Box `palettes` published from it.                                       *)
(*                                                                         *)
(* Strings whose characters matter (colours, class-count keys) are tuples  *)
(* of one-character strings.  A colour channel, a float in [0,1] in the    *)
(* engine, is carried as the integer round(val * 255) in 0..255.           *)
(***************************************************************************)
EXTENDS Integers, Sequences, FiniteSets, TLC

VARIABLES
    registry,      \* the engine's registered ramp names, in enumeration order
    rampdef,       \* the engine's definition of each ramp name
    changes,       \* number of engine changes so far (bounded)
    pc,            \* position of the module-load code
    iterList,      \* the list enumerate() iterates over (line 132)
    index,         \* enumerate()'s index
    cmap_name,     \* loop variable of line 132
    color_dict,    \* line 134
    i,             \* loop variable of line 135
    palette_dict,  \* __palette_dict
    palettes,      \* the published Box (empty mapping while unbound)
    ret,           \* the last call made by a user of the module and its outcome
    enumStable,    \* history: every guard call of list_colormaps() returned iterList
    defsChanged,   \* history: a ramp was redefined or unregistered since module load began
    skipped,       \* history: names the guard of line 133 skipped
    writeLog       \* history: the writes to __palette_dict in order, each by the literal or the loop

vars == << registry, rampdef, changes, pc, iterList, index, cmap_name, color_dict, i,
           palette_dict, palettes, ret, enumStable, defsChanged, skipped, writeLog >>

None == "None"

\* Bound on the number of engine changes (register / unregister / redefine).
MaxEngineChanges == 1

\* range(3, 13), line 135
RangeStart == 3
RangeStop == 13
\* zfill(2), line 136
ZfillWidth == 2

HandNames == {"ndvi", "ndwi", "dem"}
EngineNames == {"ndvi", "viridis"}

Range(s) == { s[k] : k \in 1..Len(s) }

-----------------------------------------------------------------------------
(* The hand-authored literal of lines 99-130.                              *)

ndvi_colors ==
    << <<"F","F","F","F","F","F">>,
       <<"C","E","7","E","4","5">>,
       <<"D","F","9","2","3","D">>,
       <<"F","1","B","5","5","5">>,
       <<"F","C","D","1","6","3">>,
       <<"9","9","B","7","1","8">>,
       <<"7","4","A","9","0","1">>,
       <<"6","6","A","0","0","0">>,
       <<"5","2","9","4","0","0">>,
       <<"3","E","8","6","0","1">>,
       <<"2","0","7","4","0","1">>,
       <<"0","5","6","2","0","1">>,
       <<"0","0","4","C","0","0">>,
       <<"0","2","3","B","0","1">>,
       <<"0","1","2","E","0","1">>,
       <<"0","1","1","D","0","1">>,
       <<"0","1","1","3","0","1">> >>

ndwi_colors ==
    << <<"#","e","c","e","7","f","2">>,
       <<"#","d","0","d","1","e","6">>,
       <<"#","a","6","b","d","d","b">>,
       <<"#","7","4","a","9","c","f">>,
       <<"#","3","6","9","0","c","0">>,
       <<"#","0","5","7","0","b","0">>,
       <<"#","0","4","5","a","8","d">>,
       <<"#","0","2","3","8","5","8">> >>

dem_colors ==
    << <<"0","0","6","6","3","3">>,
       <<"E","5","F","F","C","C">>,
       <<"6","6","2","A","0","0">>,
       <<"D","8","D","8","D","8">>,
       <<"F","5","F","5","F","5">> >>

PyList(colors) == [kind |-> "list", colors |-> colors]
PyDict(byKey) == [kind |-> "dict", byKey |-> byKey]

InitialPaletteDict_swapped ==
    [ h \in HandNames |->
        PyList(CASE h = "ndvi" -> ndvi_colors
                 [] h = "ndwi" -> dem_colors
                 [] h = "dem"  -> ndwi_colors) ]

InitialPaletteDict ==
    [ h \in HandNames |->
        PyList(CASE h = "ndvi" -> ndvi_colors
                 [] h = "ndwi" -> ndwi_colors
                 [] h = "dem"  -> dem_colors) ]

-----------------------------------------------------------------------------
(* Python string helpers.                                                   *)

DigitChars == <<"0","1","2","3","4","5","6","7","8","9","a","b","c","d","e","f">>

RECURSIVE ToBase(_, _)
ToBase(n, base) ==
    IF n < base THEN << DigitChars[n + 1] >>
    ELSE ToBase(n \div base, base) \o << DigitChars[(n % base) + 1] >>

\* str(i) of a non-negative int
PyStr(n) == ToBase(n, 10)

RECURSIVE zfill(_, _)
zfill(s, width) == IF Len(s) >= width THEN s ELSE zfill(<<"0">> \o s, width)

KeyName_nopad(n) == <<"n">> \o PyStr(n)

\* "n" + str(i).zfill(2), line 136
KeyName(n) == <<"n">> \o zfill(PyStr(n), ZfillWidth)

\* format(v, "02x")
Format02x(v) == zfill(ToBase(v, 16), 2)

EmptyDict == [k \in {} |-> None]
DictSet(d, k, v) == [x \in (DOMAIN d) \cup {k} |-> IF x = k THEN v ELSE d[x]]
DictDel(d, k) == [x \in (DOMAIN d) \ {k} |-> d[x]]

-----------------------------------------------------------------------------
(* The external colormap engine, as far as lines 19, 20 and 30 use it.     *)

DefA == [lo |-> 0, hi |-> 255, N |-> 4]
DefB == [lo |-> 68, hi |-> 253, N |-> 2]
NoDef == [lo |-> 0, hi |-> 0, N |-> 0]
RampDefs == {DefA, DefB}
OtherDef(d) == IF d = DefA THEN DefB ELSE DefA

\* the engine's default ramp, used when cmap_name is None
DefaultCmap == "viridis"

\* plt.colormaps(), line 30
list_colormaps == registry

\* plt.cm.get_cmap(cmap_name, n_class), line 19.  lut is <<>> for None, <<n>> for n.
get_cmap(name, lut) ==
    LET nm == IF name = None THEN DefaultCmap ELSE name IN
    IF nm \notin Range(registry)
    THEN [status |-> "ValueError", N |-> 0, def |-> NoDef]
    ELSE [status |-> "ok",
          N |-> IF lut = <<>> THEN rampdef[nm].N ELSE lut[1],
          def |-> rampdef[nm]]

\* cmap(k), line 20: the RGBA stop k of a ramp resampled to N entries
CmapCall(def, N, k) ==
    LET v == IF N > 1 THEN def.lo + ((def.hi - def.lo) * k) \div (N - 1) ELSE def.lo
    IN << v, 255 - v, def.lo, 255 >>

\* mpl.colors.rgb2hex(c), keep_alpha=False: "#" and two hex digits per R, G, B
rgb2hex(c) == <<"#">> \o Format02x(c[1]) \o Format02x(c[2]) \o Format02x(c[3])

HexStops_short(def, N) == [k \in 1..(N - 1) |-> Tail(rgb2hex(CmapCall(def, N, k - 1)))]

\* [ ... for i in range(cmap.N)] with the [1:] slice, line 20
HexStops(def, N) == [k \in 1..N |-> Tail(rgb2hex(CmapCall(def, N, k - 1)))]

\* a sampler that falls back to the catalog for names the engine does not know
get_palette_fallback(name, n_class) ==
    LET cmap == get_cmap(name, n_class) IN
    IF cmap.status = "ok"
    THEN [status |-> "ok", colors |-> HexStops(cmap.def, cmap.N), def |-> cmap.def]
    ELSE IF name \in DOMAIN palettes /\ palettes[name].kind # "Box"
    THEN [status |-> "ok", colors |-> palettes[name].colors, def |-> NoDef]
    ELSE [status |-> cmap.status, colors |-> << >>, def |-> NoDef]

\* get_palette, lines 9-21
get_palette(name, n_class) ==
    LET cmap == get_cmap(name, n_class) IN
    IF cmap.status # "ok"
    THEN [status |-> cmap.status, colors |-> << >>, def |-> NoDef]
    ELSE [status |-> "ok", colors |-> HexStops(cmap.def, cmap.N), def |-> cmap.def]

-----------------------------------------------------------------------------
(* Module load, lines 99-142.                                               *)

Guard_offbyone(idx) == idx + 1 < Len(list_colormaps)

\* index < len(list_colormaps()), line 133
Guard(idx) == idx < Len(list_colormaps)

\* a build that samples one class too many
SampledEntry_plus1(name, k) == get_palette(name, <<k + 1>>)

\* a build that swallows the sampler's error and stores an empty list
SampledEntry_swallow(name, k) ==
    LET r == get_palette(name, <<k>>) IN
    IF r.status = "ok" THEN r ELSE [status |-> "ok", colors |-> << >>, def |-> NoDef]

\* colors = get_palette(cmap_name, i), line 137
SampledEntry(name, k) == get_palette(name, <<k>>)

\* a build that keeps an entry already present (setdefault)
StoreEntry_keep(d, name, cd) == IF name \in DOMAIN d THEN d ELSE DictSet(d, name, PyDict(cd))

\* __palette_dict[cmap_name] = color_dict, line 139
StoreEntry(d, name, cd) == DictSet(d, name, PyDict(cd))

frozen_box_off == FALSE

\* frozen_box=True, line 142
frozen_box == TRUE

\* Box(__palette_dict, frozen_box=True), line 142: nested dicts become Boxes with
\* the same configuration, lists become tuples when the box is frozen
Box(d) ==
    [ k \in DOMAIN d |->
        IF d[k].kind = "dict"
        THEN [kind |-> "Box", byKey |-> d[k].byKey]
        ELSE [kind |-> IF frozen_box THEN "tuple" ELSE "BoxList", colors |-> d[k].colors] ]

NoCall == [op |-> "none"]

InjectiveSeqs(S) ==
    { s \in UNION { [1..n -> S] : n \in 0..Cardinality(S) } :
        \A a, b \in 1..Len(s) : a # b => s[a] # s[b] }

Init ==
    /\ registry \in InjectiveSeqs(EngineNames)
    /\ rampdef = [nm \in EngineNames |-> IF nm = "ndvi" THEN DefB ELSE DefA]
    /\ changes = 0
    /\ pc = "start"
    /\ iterList = << >>
    /\ index = 0
    /\ cmap_name = None
    /\ color_dict = EmptyDict
    /\ i = RangeStart
    /\ palette_dict = InitialPaletteDict
    /\ palettes = EmptyDict
    /\ ret = NoCall
    /\ enumStable = TRUE
    /\ defsChanged = FALSE
    /\ skipped = {}
    /\ writeLog = << [key |-> "ndvi", by |-> "literal"], [key |-> "ndwi", by |-> "literal"],
                     [key |-> "dem", by |-> "literal"] >>

engineVars == << registry, rampdef, changes, defsChanged >>
loopVars == << iterList, index, cmap_name, color_dict, i >>
histVars == << enumStable, skipped, writeLog >>

\* enumerate(list_colormaps()), line 132: the iterated list is taken once
LoopStart ==
    /\ pc = "start"
    /\ iterList' = list_colormaps
    /\ index' = 0
    /\ pc' = "loop"
    /\ UNCHANGED << engineVars, cmap_name, color_dict, i, palette_dict, palettes, ret,
                    histVars >>

\* lines 132-134: next item, guard true
LoopEnter ==
    /\ pc = "loop"
    /\ index < Len(iterList)
    /\ Guard(index)
    /\ cmap_name' = iterList[index + 1]
    /\ color_dict' = EmptyDict
    /\ i' = RangeStart
    /\ pc' = "inner"
    /\ enumStable' = (enumStable /\ list_colormaps = iterList)
    /\ UNCHANGED << engineVars, iterList, index, palette_dict, palettes, ret, skipped,
                    writeLog >>

\* lines 132-133: next item, guard false
LoopSkip ==
    /\ pc = "loop"
    /\ index < Len(iterList)
    /\ ~Guard(index)
    /\ cmap_name' = iterList[index + 1]
    /\ index' = index + 1
    /\ enumStable' = (enumStable /\ list_colormaps = iterList)
    /\ skipped' = skipped \cup
          { [name |-> iterList[index + 1], index |-> index, seen |-> Len(list_colormaps)] }
    /\ UNCHANGED << engineVars, pc, iterList, color_dict, i, palette_dict, palettes, ret,
                    writeLog >>

\* lines 135-138: one iteration of the inner loop, the sampler succeeds
InnerSample ==
    /\ pc = "inner"
    /\ i < RangeStop
    /\ LET r == SampledEntry(cmap_name, i) IN
         /\ r.status = "ok"
         /\ color_dict' = DictSet(color_dict, KeyName(i), r.colors)
    /\ i' = i + 1
    /\ UNCHANGED << engineVars, pc, iterList, index, cmap_name, palette_dict, palettes,
                    ret, histVars >>

\* line 137 raises: module load ends with the exception, line 142 is never run
InnerFail ==
    /\ pc = "inner"
    /\ i < RangeStop
    /\ SampledEntry(cmap_name, i).status # "ok"
    /\ pc' = "aborted"
    /\ UNCHANGED << engineVars, loopVars, palette_dict, palettes, ret, histVars >>

\* line 139
StoreRamp ==
    /\ pc = "inner"
    /\ i = RangeStop
    /\ palette_dict' = StoreEntry(palette_dict, cmap_name, color_dict)
    /\ writeLog' = Append(writeLog, [key |-> cmap_name, by |-> "loop"])
    /\ index' = index + 1
    /\ pc' = "loop"
    /\ UNCHANGED << engineVars, iterList, cmap_name, color_dict, i, palettes, ret,
                    enumStable, skipped >>

\* line 142, reached when enumerate() is exhausted
Publish ==
    /\ pc = "loop"
    /\ index >= Len(iterList)
    /\ palettes' = Box(palette_dict)
    /\ pc' = "ready"
    /\ UNCHANGED << engineVars, loopVars, palette_dict, ret, histVars >>

-----------------------------------------------------------------------------
(* Calls made by users of the imported module.  ret holds the outcome of    *)
(* a call until the caller has taken it; one call is outstanding at a time  *)
(* (the module is single-threaded).                                         *)

Idle == pc = "ready" /\ ret.op = "none"

NameInputs == EngineNames \cup HandNames \cup {None}
ClassInputs == { << >>, << 1 >> } \cup { << n >> : n \in RangeStart..(RangeStop - 1) }

\* get_palette(cmap_name, n_class), lines 9-21
CallGetPalette(name, n_class) ==
    /\ Idle
    /\ LET r == get_palette(name, n_class) IN
         ret' = [op |-> "get_palette", name |-> name, n |-> n_class,
                 status |-> r.status, value |-> r.colors,
                 reg |-> registry, def |-> r.def]
    /\ UNCHANGED << engineVars, pc, loopVars, palette_dict, palettes, histVars >>

\* list_colormaps(), lines 24-30
CallListColormaps ==
    /\ Idle
    /\ ret' = [op |-> "list_colormaps", status |-> "ok", value |-> list_colormaps]
    /\ UNCHANGED << engineVars, pc, loopVars, palette_dict, palettes, histVars >>

\* the caller takes the outcome (a value or an exception) of its call
Return ==
    /\ pc = "ready"
    /\ ret.op # "none"
    /\ ret' = NoCall
    /\ UNCHANGED << engineVars, pc, loopVars, palette_dict, palettes, histVars >>

-----------------------------------------------------------------------------
(* Write attempts on the published Box, line 142.  A frozen Box raises      *)
(* BoxError on every item assignment and deletion; its sequences are        *)
(* tuples, which support no assignment, deletion or append.                 *)

MutOps == {"insert", "update", "delete"}
NewKey == "custom"
NewInnerKey == <<"n","9","9">>
NewColor == <<"0","0","0","0","0","0">>

\* box[k] = v / del box[k] on a mapping of the Box
BoxWrite(op, box, k, v) ==
    IF frozen_box THEN [status |-> "BoxError", box |-> box]
    ELSE IF op = "delete"
         THEN IF k \in DOMAIN box THEN [status |-> "ok", box |-> DictDel(box, k)]
              ELSE [status |-> "KeyError", box |-> box]
         ELSE [status |-> "ok", box |-> DictSet(box, k, v)]

\* seq[k] = v / del seq[k] / seq.append(v) on a colour sequence of the Box
SeqWrite(op, seq, k, v) ==
    IF frozen_box
    THEN [status |-> IF op = "insert" THEN "AttributeError" ELSE "TypeError", seq |-> seq]
    ELSE IF op = "insert" THEN [status |-> "ok", seq |-> Append(seq, v)]
    ELSE IF k \notin 1..Len(seq) THEN [status |-> "IndexError", seq |-> seq]
    ELSE IF op = "update" THEN [status |-> "ok", seq |-> [seq EXCEPT ![k] = v]]
    ELSE [status |-> "ok", seq |-> SubSeq(seq, 1, k - 1) \o SubSeq(seq, k + 1, Len(seq))]

Attempt(op, level, status) ==
    [op |-> "mutate", kind |-> op, level |-> level, status |-> status]

\* palettes[k] = v, del palettes[k]
MutateTop(op, k) ==
    /\ Idle
    /\ op = "insert" => k \notin DOMAIN palettes
    /\ op # "insert" => k \in DOMAIN palettes
    /\ LET r == BoxWrite(op, palettes, k, [kind |-> "tuple", colors |-> << NewColor >>]) IN
         /\ palettes' = r.box
         /\ ret' = Attempt(op, "top", r.status)
    /\ UNCHANGED << engineVars, pc, loopVars, palette_dict, histVars >>

\* palettes[name][key] = v, del palettes[name][key]
MutateInner(op, name, key) ==
    /\ Idle
    /\ name \in DOMAIN palettes
    /\ palettes[name].kind = "Box"
    /\ op = "insert" => key \notin DOMAIN palettes[name].byKey
    /\ op # "insert" => key \in DOMAIN palettes[name].byKey
    /\ LET r == BoxWrite(op, palettes[name].byKey, key, << NewColor >>) IN
         /\ palettes' = [palettes EXCEPT ![name].byKey = r.box]
         /\ ret' = Attempt(op, "inner", r.status)
    /\ UNCHANGED << engineVars, pc, loopVars, palette_dict, histVars >>

\* palettes[name][k] = v and the like, on a hand-authored flat sequence
MutateFlatSeq(op, name, k) ==
    /\ Idle
    /\ name \in DOMAIN palettes
    /\ palettes[name].kind # "Box"
    /\ LET r == SeqWrite(op, palettes[name].colors, k, NewColor) IN
         /\ palettes' = [palettes EXCEPT ![name].colors = r.seq]
         /\ ret' = Attempt(op, "flat", r.status)
    /\ UNCHANGED << engineVars, pc, loopVars, palette_dict, histVars >>

\* palettes[name][key][k] = v and the like, on a sampled sequence
MutateRampSeq(op, name, key, k) ==
    /\ Idle
    /\ name \in DOMAIN palettes
    /\ palettes[name].kind = "Box"
    /\ key \in DOMAIN palettes[name].byKey
    /\ LET r == SeqWrite(op, palettes[name].byKey[key], k, NewColor) IN
         /\ palettes' = [palettes EXCEPT ![name].byKey[key] = r.seq]
         /\ ret' = Attempt(op, "seq", r.status)
    /\ UNCHANGED << engineVars, pc, loopVars, palette_dict, histVars >>

-----------------------------------------------------------------------------
(* The engine's registry is a mutable global of the engine: it may change   *)
(* while the module loads and afterwards.                                   *)

EngineActive == pc \in {"loop", "inner", "ready"} /\ changes < MaxEngineChanges

EngineRegister(nm) ==
    /\ EngineActive
    /\ nm \notin Range(registry)
    /\ registry' = Append(registry, nm)
    /\ changes' = changes + 1
    /\ UNCHANGED << defsChanged, rampdef, pc, loopVars, palette_dict, palettes, ret, histVars >>

EngineUnregister(nm) ==
    /\ EngineActive
    /\ nm \in Range(registry)
    /\ registry' = SelectSeq(registry, LAMBDA x : x # nm)
    /\ changes' = changes + 1
    /\ defsChanged' = TRUE
    /\ UNCHANGED << rampdef, pc, loopVars, palette_dict, palettes, ret, histVars >>

EngineRedefine(nm) ==
    /\ EngineActive
    /\ nm \in Range(registry)
    /\ rampdef' = [rampdef EXCEPT ![nm] = OtherDef(@)]
    /\ changes' = changes + 1
    /\ defsChanged' = TRUE
    /\ UNCHANGED << registry, pc, loopVars, palette_dict, palettes, ret, histVars >>

Next ==
    \/ LoopStart
    \/ LoopEnter
    \/ LoopSkip
    \/ InnerSample
    \/ InnerFail
    \/ StoreRamp
    \/ Publish
    \/ \E name \in NameInputs, n \in ClassInputs : CallGetPalette(name, n)
    \/ CallListColormaps
    \/ Return
    \/ \E op \in MutOps, k \in HandNames \cup EngineNames \cup {NewKey} : MutateTop(op, k)
    \/ \E op \in MutOps, name \in EngineNames, c \in {RangeStart, RangeStop - 1} :
          MutateInner(op, name, IF op = "insert" THEN NewInnerKey ELSE KeyName(c))
    \/ \E op \in MutOps, name \in HandNames, k \in 1..2 : MutateFlatSeq(op, name, k)
    \/ \E op \in MutOps, name \in EngineNames, c \in {RangeStart, RangeStop - 1}, k \in 1..2 :
          MutateRampSeq(op, name, KeyName(c), k)
    \/ \E nm \in EngineNames : EngineRegister(nm)
    \/ \E nm \in EngineNames : EngineUnregister(nm)
    \/ \E nm \in EngineNames : EngineRedefine(nm)

Spec == Init /\ [][Next]_vars

-----------------------------------------------------------------------------
(* Properties.                                                              *)

HexChars == {"0","1","2","3","4","5","6","7","8","9",
             "a","b","c","d","e","f","A","B","C","D","E","F"}
IsHex6(s) == Len(s) = 6 /\ \A k \in 1..Len(s) : s[k] \in HexChars

ClassCounts == 3..12
ExpectedKey(c) ==
    CASE c = 3  -> <<"n","0","3">> [] c = 4  -> <<"n","0","4">>
      [] c = 5  -> <<"n","0","5">> [] c = 6  -> <<"n","0","6">>
      [] c = 7  -> <<"n","0","7">> [] c = 8  -> <<"n","0","8">>
      [] c = 9  -> <<"n","0","9">> [] c = 10 -> <<"n","1","0">>
      [] c = 11 -> <<"n","1","1">> [] c = 12 -> <<"n","1","2">>
ExpectedKeys == { ExpectedKey(c) : c \in ClassCounts }

\* names the build loop stored an engine-derived mapping under
Stored == { writeLog[k].key : k \in { j \in 1..Len(writeLog) : writeLog[j].by = "loop" } }
LiteralWrites == { k \in 1..Len(writeLog) : writeLog[k].by = "literal" }
LoopWrites == { k \in 1..Len(writeLog) : writeLog[k].by = "loop" }
Graded(name) == name \in DOMAIN palettes /\ palettes[name].kind = "Box"
FlatLiteral(name, lit) ==
    /\ name \in DOMAIN palettes
    /\ palettes[name].kind = "tuple"
    /\ palettes[name].colors = lit
WriteErrors == {"BoxError", "TypeError", "AttributeError"}

\* C1: once palettes is published, no step changes it, and every insert, update or
\* delete attempt (top level, inner mapping, colour sequence) ends in an error.
C1_FrozenCatalog ==
    [][ pc = "ready" =>
          /\ palettes' = palettes
          /\ (ret'.op = "mutate" => ret'.status \in WriteErrors) ]_vars

C1_Witness ==
    pc = "ready" /\ ret.op = "mutate" /\ ret.level = "inner" /\ ret.status = "BoxError"

C3_AllHex6 ==
    /\ pc = "ready" =>
          \A name \in DOMAIN palettes :
              IF palettes[name].kind = "Box"
              THEN \A key \in DOMAIN palettes[name].byKey :
                      \A k \in 1..Len(palettes[name].byKey[key]) :
                          IsHex6(palettes[name].byKey[key][k])
              ELSE \A k \in 1..Len(palettes[name].colors) : IsHex6(palettes[name].colors[k])
    /\ (ret.op = "get_palette" /\ ret.status = "ok") =>
          \A k \in 1..Len(ret.value) : IsHex6(ret.value[k])

\* C4: every engine-derived entry of the published catalog has exactly the keys
\* n03, n04, ..., n12.
C4_ClassCountKeys ==
    pc = "ready" =>
        \A name \in DOMAIN palettes :
            palettes[name].kind = "Box" => DOMAIN palettes[name].byKey = ExpectedKeys

C4_Witness == pc = "ready" /\ Graded("viridis") /\ Graded("ndvi")

\* C5: with ramp definitions unchanged since load, palettes[r]["n" + zero-padded c]
\* equals what get_palette(r, c) returns now, for every engine-derived r and c in 3..12.
C5_CatalogMatchesSampler ==
    (pc = "ready" /\ ~defsChanged) =>
        \A name \in DOMAIN palettes :
            palettes[name].kind = "Box" =>
                \A c \in ClassCounts :
                    LET g == get_palette(name, <<c>>) IN
                      /\ g.status = "ok"
                      /\ ExpectedKey(c) \in DOMAIN palettes[name].byKey
                      /\ palettes[name].byKey[ExpectedKey(c)] = g.colors

C5_Witness == pc = "ready" /\ ~defsChanged /\ Graded("viridis") /\ ret.op = "get_palette"

\* C6: for a name the engine registers and c in 3..12, get_palette(name, c) succeeds
\* with exactly c entries, entry k being stop k-1 of the ramp resampled to c stops.
C6_SamplerLength ==
    (ret.op = "get_palette" /\ ret.name # None /\ ret.n # << >>) =>
        LET c == ret.n[1] IN
        (c \in ClassCounts /\ ret.name \in Range(ret.reg)) =>
            /\ ret.status = "ok"
            /\ Len(ret.value) = c
            /\ \A k \in 1..c : ret.value[k] = Tail(rgb2hex(CmapCall(ret.def, c, k - 1)))

C6_Witness ==
    ret.op = "get_palette" /\ ret.name = "viridis" /\ ret.n = <<12>> /\ ret.status = "ok"

\* every name of the enumeration is either skipped by the guard or holds a mapping
\* with all ten keys, each a list of that many colours; the three hand-authored
\* names are keys
CatalogComplete ==
    /\ pc = "ready"
    /\ index = Len(iterList)
    /\ HandNames \subseteq DOMAIN palettes
    /\ \A k \in 1..Len(iterList) :
          \/ \E s \in skipped : s.name = iterList[k] /\ s.index = k - 1
          \/ /\ Graded(iterList[k])
             /\ DOMAIN palettes[iterList[k]].byKey = ExpectedKeys
             /\ \A c \in ClassCounts : Len(palettes[iterList[k]].byKey[ExpectedKey(c)]) = c

\* C7: after a failed sample the build stays aborted and palettes is never bound;
\* whenever palettes is bound it is the complete catalog.
C7_AtomicBuild ==
    [][ /\ pc = "aborted" => (pc' = "aborted" /\ palettes' = EmptyDict)
        /\ pc' = "aborted" => palettes' = EmptyDict
        /\ palettes' # EmptyDict => CatalogComplete' ]_vars

C7_Witness == pc = "aborted" /\ palettes = EmptyDict /\ palette_dict # InitialPaletteDict

\* C8: get_palette with a hand-authored name the engine does not register fails with
\* the engine's error and returns nothing; no get_palette or list_colormaps call
\* changes the catalog.
C8_SamplerIndependent ==
    [][ ret'.op \in {"get_palette", "list_colormaps"} =>
          /\ palettes' = palettes
          /\ palette_dict' = palette_dict
          /\ (ret'.op = "get_palette" /\ ret'.name \in HandNames
                /\ ret'.name \notin Range(ret'.reg)) =>
                 (ret'.status = "ValueError" /\ ret'.value = << >>) ]_vars

C8_Witness ==
    /\ ret.op = "get_palette" /\ ret.name = "ndwi" /\ ret.status = "ValueError"
    /\ FlatLiteral("ndwi", ndwi_colors)

SingleCallBuild ==
    [ name \in HandNames \cup Range(iterList) |->
        IF name \in Range(iterList)
        THEN [kind |-> "Box",
              byKey |-> [key \in ExpectedKeys |->
                           LET c == CHOOSE n \in ClassCounts : ExpectedKey(n) = key
                           IN HexStops(rampdef[name], c)]]
        ELSE Box(InitialPaletteDict)[name] ]

\* C10: when every guard call returned the iterated sequence, no name was skipped,
\* every enumerated name is a key and (definitions unchanged) the catalog is that of
\* the single-call build; a name is left out only if a guard call saw a sequence no
\* longer than the name's index.
C10_GuardRedundant ==
    /\ \A s \in skipped : s.seen <= s.index /\ ~enumStable
    /\ pc = "ready" =>
          /\ \A k \in 1..Len(iterList) :
                iterList[k] \notin Stored =>
                    \E s \in skipped : s.name = iterList[k] /\ s.index = k - 1
          /\ enumStable =>
                /\ skipped = {}
                /\ \A k \in 1..Len(iterList) : Graded(iterList[k])
                /\ ~defsChanged => palettes = SingleCallBuild

C10_Witness ==
    pc = "ready" /\ enumStable /\ Len(iterList) = 2 /\ Graded(iterList[2])

====
